---------------------------- MODULE Spec2Model ----------------------------
(***************************************************************************)
(* A model of libxmlb's node view (src/src/xb-node.c) and of its           *)
(* command-line tool (src/src/xb-tool.c).                                  *)
(*                                                                         *)
(* C strings are sequences of one-character strings; the NULL string is    *)
(* the one-element sequence NULL, which no C string equals because its     *)
(* element is not a single character.  A silo node (an XbSiloNode) is its  *)
(* index 1..n in document order; the NULL node is 0.  A guint64 is four    *)
(* 16-bit limbs, least significant first, so that the arithmetic of        *)
(* g_ascii_strtoull keeps its 64-bit width.                                *)
(***************************************************************************)
EXTENDS Integers, Sequences, FiniteSets, TLC

VARIABLES
    silo,       \* the loaded silo: parent links, element names, texts
    last,       \* the last node-level query call and what it returned
    siloRefs,   \* the silo's GObject reference count (0 = finalized)
    handle,     \* TRUE while the caller still owns its silo reference
    views,      \* node views: id -> [live, sn, data]
    bufRefs,    \* GBytes reference counts
    owned,      \* how many references the caller holds on each GBytes
    lastSet,    \* history: the buffer last set on view id under key
    got,        \* the last xb_node_get_data call, its result, and lastSet then
    self,       \* xb_node_get_children: the view it was called on
    n,          \* xb_node_get_children: the loop's cursor view id (0 = NULL)
    array,      \* xb_node_get_children: the GPtrArray of view ids
    pc,         \* xb_node_get_children: "idle", "loop" or "done"
    tool        \* the xb-tool process

vars == <<silo, last, siloRefs, handle, views, bufRefs, owned, lastSet, got,
          self, n, array, pc, tool>>

(***************************************************************************)
(* Bounds.                                                                 *)
(***************************************************************************)
MaxNodes == 3
MaxLimit == 2
MaxHeld == 2
MaxDataViews == 2
MaxArgs == 3

(***************************************************************************)
(* Strings.                                                                *)
(***************************************************************************)
NULL == <<"NULL">>

SLASH == <<"/">>

RECURSIVE UntilNull(_)
UntilNull(strs) ==
    IF strs = <<>> \/ Head(strs) = NULL
    THEN <<>>
    ELSE <<Head(strs)>> \o UntilNull(Tail(strs))

RECURSIVE JoinAll(_, _)
JoinAll(sep, strs) ==
    IF strs = <<>> THEN <<>>
    ELSE IF Len(strs) = 1 THEN Head(strs)
    ELSE Head(strs) \o sep \o JoinAll(sep, Tail(strs))

\* g_strjoin (separator, s1, s2, ..., NULL): the argument list ends at the
\* first NULL, wherever it is.
GStrjoin(sep, args) == JoinAll(sep, UntilNull(args))

\* g_str_has_prefix
GStrHasPrefix(str, prefix) ==
    /\ Len(str) >= Len(prefix)
    /\ SubSeq(str, 1, Len(prefix)) = prefix

RECURSIVE SplitFrom(_, _, _)
SplitFrom(str, sep, acc) ==
    IF str = <<>> THEN <<acc>>
    ELSE IF Head(str) = sep THEN <<acc>> \o SplitFrom(Tail(str), sep, <<>>)
    ELSE SplitFrom(Tail(str), sep, Append(acc, Head(str)))

\* g_strsplit (str, "/", -1): the empty string has no tokens.
GStrsplit(str, sep) == IF str = <<>> THEN <<>> ELSE SplitFrom(str, sep, <<>>)

(***************************************************************************)
(* guint64 and g_ascii_strtoull.                                           *)
(***************************************************************************)
LimbBase == 256 * 256

U64Zero == <<0, 0, 0, 0>>

G_MAXUINT64 == <<LimbBase - 1, LimbBase - 1, LimbBase - 1, LimbBase - 1>>

\* v * base + d as [value, overflow]: overflow when the result needs a 65th bit
U64MulAdd(v, base, d) ==
    LET t1 == v[1] * base + d
        t2 == v[2] * base + (t1 \div LimbBase)
        t3 == v[3] * base + (t2 \div LimbBase)
        t4 == v[4] * base + (t3 \div LimbBase)
    IN  [value |-> <<t1 % LimbBase, t2 % LimbBase, t3 % LimbBase, t4 % LimbBase>>,
         overflow |-> (t4 \div LimbBase) > 0]

\* -v modulo 2^64
U64Neg(v) ==
    LET t1 == (LimbBase - 1 - v[1]) + 1
        t2 == (LimbBase - 1 - v[2]) + (t1 \div LimbBase)
        t3 == (LimbBase - 1 - v[3]) + (t2 \div LimbBase)
        t4 == (LimbBase - 1 - v[4]) + (t3 \div LimbBase)
    IN  <<t1 % LimbBase, t2 % LimbBase, t3 % LimbBase, t4 % LimbBase>>

AlnumChars ==
    <<"0", "1", "2", "3", "4", "5", "6", "7", "8", "9",
      "a", "b", "c", "d", "e", "f", "g", "h", "i", "j", "k", "l", "m",
      "n", "o", "p", "q", "r", "s", "t", "u", "v", "w", "x", "y", "z">>

\* the value of a digit or letter, or -1 for any other character
CharVal(c) ==
    IF \E i \in 1..Len(AlnumChars) : AlnumChars[i] = c
    THEN (CHOOSE i \in 1..Len(AlnumChars) : AlnumChars[i] = c) - 1
    ELSE -1

RECURSIVE SkipSpace(_)
SkipSpace(str) ==
    IF str /= <<>> /\ Head(str) = " " THEN SkipSpace(Tail(str)) ELSE str

\* the digit loop: [value, overflow, any] after the longest run of digits
RECURSIVE ParseDigits(_, _, _)
ParseDigits(str, base, acc) ==
    IF str = <<>> THEN acc
    ELSE LET c == CharVal(Head(str)) IN
         IF c < 0 \/ c >= base THEN acc
         ELSE IF acc.overflow
              THEN ParseDigits(Tail(str), base, [acc EXCEPT !.any = TRUE])
              ELSE LET m == U64MulAdd(acc.value, base, c) IN
                   ParseDigits(Tail(str), base,
                       [value |-> IF m.overflow THEN acc.value ELSE m.value,
                        overflow |-> m.overflow,
                        any |-> TRUE])

\* g_ascii_strtoull (nptr, NULL, base) for base 10 or 16: leading spaces, an
\* optional sign, for base 16 an optional 0x, then digits; 0 when there is no
\* digit, G_MAXUINT64 on overflow, negated when the sign is '-'.
GAsciiStrtoull(nptr, base) ==
    LET s0 == SkipSpace(nptr)
        negative == s0 /= <<>> /\ Head(s0) = "-"
        s1 == IF s0 /= <<>> /\ Head(s0) \in {"-", "+"} THEN Tail(s0) ELSE s0
        s2 == IF base = 16 /\ Len(s1) >= 2 /\ s1[1] = "0" /\ s1[2] = "x"
              THEN Tail(Tail(s1)) ELSE s1
        r == ParseDigits(s2, base, [value |-> U64Zero, overflow |-> FALSE, any |-> FALSE])
        ui64 == IF ~r.any THEN U64Zero
                ELSE IF r.overflow THEN G_MAXUINT64
                ELSE r.value
    IN  IF negative THEN U64Neg(ui64) ELSE ui64

(***************************************************************************)
(* The silo collaborator: a packed forest in document order.  s.parent[i]  *)
(* is the parent of node i (0 at the top level), s.element[i] its name     *)
(* (NULL when unset) and s.text[i] its text (NULL when it has none).       *)
(***************************************************************************)
Names == {<<"a">>, <<"b">>}

Elements == Names \cup {NULL}

NodesOf(s) == 1..Len(s.parent)

RECURSIVE AncestorsOrSelf(_, _)
AncestorsOrSelf(p, i) ==
    IF i = 0 THEN {} ELSE {i} \cup AncestorsOrSelf(p, p[i])

\* parent vectors of a pre-order numbering: node 1 is the root, and node i
\* hangs under the top level or under a node on the path to node i - 1
Shapes(k) ==
    {p \in [1..k -> 0..(k - 1)] :
        /\ p[1] = 0
        /\ \A i \in 2..k : p[i] \in {0} \cup AncestorsOrSelf(p, i - 1)}

IsLeaf(p, i) == \A j \in 1..Len(p) : p[j] /= i

\* the silos with at most MaxNodes nodes whose leaves all carry the text t
\* (or no text at all) for some t of texts
SilosWith(texts) ==
    UNION {
        {[parent |-> p,
          element |-> e,
          text |-> [i \in 1..k |-> IF IsLeaf(p, i) THEN t ELSE NULL]] :
            p \in Shapes(k), e \in [1..k -> Elements], t \in texts \cup {NULL}} :
        k \in 1..MaxNodes}

XbSiloGetSroot(s) == IF Len(s.parent) = 0 THEN 0 ELSE 1

XbSiloNodeGetParent(s, sn) == s.parent[sn]

XbSiloNodeGetChild(s, sn) ==
    IF sn < Len(s.parent) /\ s.parent[sn + 1] = sn THEN sn + 1 ELSE 0

XbSiloNodeGetNext(s, sn) ==
    LET later == {j \in NodesOf(s) : j > sn /\ s.parent[j] = s.parent[sn]}
    IN  IF later = {} THEN 0
        ELSE CHOOSE j \in later : \A k \in later : j <= k

XbSiloNodeGetElement(s, sn) == s.element[sn]

XbSiloNodeGetText(s, sn) == s.text[sn]

\* the members of a set of nodes in document order
RECURSIVE InOrder(_)
InOrder(S) ==
    IF S = {} THEN <<>>
    ELSE LET m == CHOOSE i \in S : \A j \in S : i <= j
         IN  <<m>> \o InOrder(S \ {m})

ChildrenOf(s, sn) == InOrder({j \in NodesOf(s) : s.parent[j] = sn})

RECURSIVE ChildrenOfAll(_, _)
ChildrenOfAll(s, sns) ==
    IF sns = <<>> THEN <<>>
    ELSE ChildrenOf(s, Head(sns)) \o ChildrenOfAll(s, Tail(sns))

(***************************************************************************)
(* The silo-level query evaluator.                                         *)
(***************************************************************************)
NameChars == {"a", "b", "c"}

\* a step of the subset this model evaluates: a bare element name
IsName(step) == step /= <<>> /\ \A i \in 1..Len(step) : step[i] \in NameChars

RECURSIVE QueryPart(_, _, _)
QueryPart(s, cands, steps) ==
    LET Matches(sn) == s.element[sn] = Head(steps)
        hits == SelectSeq(cands, Matches)
    IN  IF Len(steps) = 1 THEN hits
        ELSE QueryPart(s, ChildrenOfAll(s, hits), Tail(steps))

Truncate(seq, limit) ==
    IF limit > 0 /\ Len(seq) > limit THEN SubSeq(seq, 1, limit) ELSE seq

\* xb_silo_query_with_root (silo, n, xpath, limit, error): the matches in
\* document order, at most limit of them (0: all), as [null, nodes, error].
\* It never returns an empty array: no match is NULL with not-found, an
\* expression that does not parse is NULL with invalid-query.
XbSiloQueryWithRoot(s, anchor, xpath, limit) ==
    LET rooted == xpath /= <<>> /\ Head(xpath) = "/"
        steps == GStrsplit(IF rooted THEN Tail(xpath) ELSE xpath, "/")
        start == IF rooted THEN 0 ELSE XbSiloNodeGetParent(s, anchor)
    IN  IF steps = <<>> \/ \E i \in 1..Len(steps) : ~IsName(steps[i])
        THEN [null |-> TRUE, nodes |-> <<>>, error |-> "invalid-query"]
        ELSE LET found == Truncate(QueryPart(s, ChildrenOf(s, start), steps), limit)
             IN  IF found = <<>>
                 THEN [null |-> TRUE, nodes |-> <<>>, error |-> "not-found"]
                 ELSE [null |-> FALSE, nodes |-> found, error |-> "none"]

(***************************************************************************)
(* The exporter collaborator, flags NONE: the subtree on one line.         *)
(***************************************************************************)
RECURSIVE ExportNode(_, _)
RECURSIVE ExportNodes(_, _)
ExportNode(s, sn) ==
    LET name == IF s.element[sn] = NULL THEN <<>> ELSE s.element[sn]
        kids == ChildrenOf(s, sn)
    IN  IF kids = <<>> /\ s.text[sn] = NULL
        THEN <<"<">> \o name \o <<"/", ">">>
        ELSE <<"<">> \o name \o <<">">>
             \o (IF s.text[sn] = NULL THEN <<>> ELSE s.text[sn])
             \o ExportNodes(s, kids)
             \o <<"<", "/">> \o name \o <<">">>
ExportNodes(s, sns) ==
    IF sns = <<>> THEN <<>>
    ELSE ExportNode(s, Head(sns)) \o ExportNodes(s, Tail(sns))

\* xb_silo_export_with_root (silo, n, XB_NODE_EXPORT_FLAG_NONE, error)
XbSiloExportWithRoot(s, sn) == ExportNode(s, sn)

(***************************************************************************)
(* xb-node.c: projections and the five query operations.  A GError out     *)
(* parameter is the sequence of error kinds set through it, in order.      *)
(* Every operation yields a record                                         *)
(*   null    TRUE when the C function returned NULL (none)                 *)
(*   nodes   the silo nodes of the node views returned                     *)
(*   text, uint, xml   the projected value                                 *)
(*   errors  the errors set                                                *)
(*   calls   the calls made to the silo-level evaluator                    *)
(*   readEmpty  TRUE when element 0 of an empty array was read             *)
(***************************************************************************)
XbNodeGetElement(s, sn) == XbSiloNodeGetElement(s, sn)

XbNodeGetText(s, sn) == XbSiloNodeGetText(s, sn)

XbNodeExport(s, sn) == XbSiloExportWithRoot(s, sn)

ErrorsOf(ev) == IF ev.error = "none" THEN <<>> ELSE <<ev.error>>

NoResult ==
    [null |-> TRUE, nodes |-> <<>>, text |-> NULL, uint |-> U64Zero,
     xml |-> NULL, errors |-> <<>>, calls |-> <<>>, readEmpty |-> FALSE]

XbNodeQuery(s, node, xpath, limit) ==
    LET xpath2 == GStrjoin(SLASH, <<XbNodeGetElement(s, node), xpath>>)
        ev == XbSiloQueryWithRoot(s, node, xpath2, limit)
    IN  {[NoResult EXCEPT
            !.null = ev.null,
            !.nodes = ev.nodes,
            !.errors = ErrorsOf(ev),
            !.calls = <<[anchor |-> node, xpath |-> xpath2, limit |-> limit]>>]}

\* xb_node_query_first handing the caller's expression over as it is
XbNodeQueryFirstNoPrefix(s, node, xpath) ==
    LET ev == XbSiloQueryWithRoot(s, node, xpath, 1)
        base == [NoResult EXCEPT
                    !.errors = ErrorsOf(ev),
                    !.calls = <<[anchor |-> node, xpath |-> xpath, limit |-> 1]>>]
    IN  IF ev.null THEN {base}
        ELSE {[base EXCEPT !.null = FALSE, !.nodes = <<ev.nodes[1]>>]}

\* g_ptr_array_index (results, 0) is not guarded by results->len: on an
\* empty array it reads whatever lies there, any node or NULL.
XbNodeQueryFirst(s, node, xpath) ==
    LET xpath2 == GStrjoin(SLASH, <<XbNodeGetElement(s, node), xpath>>)
        ev == XbSiloQueryWithRoot(s, node, xpath2, 1)
        base == [NoResult EXCEPT
                    !.errors = ErrorsOf(ev),
                    !.calls = <<[anchor |-> node, xpath |-> xpath2, limit |-> 1]>>]
    IN  IF ev.null THEN {base}
        ELSE IF ev.nodes = <<>>
        THEN {[base EXCEPT !.null = TRUE, !.readEmpty = TRUE]}
             \cup {[base EXCEPT !.null = FALSE, !.nodes = <<x>>, !.readEmpty = TRUE] :
                     x \in NodesOf(s)}
        ELSE {[base EXCEPT !.null = FALSE, !.nodes = <<ev.nodes[1]>>]}

\* xb_node_query_text setting not-found itself when there is no match
XbNodeQueryTextOverwrites(s, node, xpath) ==
    {IF f.null THEN [f EXCEPT !.errors = Append(f.errors, "not-found")]
     ELSE LET tmp == XbNodeGetText(s, f.nodes[1]) IN
          IF tmp = NULL
          THEN [f EXCEPT !.null = TRUE, !.nodes = <<>>,
                         !.errors = Append(f.errors, "not-found")]
          ELSE [f EXCEPT !.nodes = <<>>, !.text = tmp] :
        f \in XbNodeQueryFirst(s, node, xpath)}

XbNodeQueryText(s, node, xpath) ==
    {IF f.null THEN f
     ELSE LET tmp == XbNodeGetText(s, f.nodes[1]) IN
          IF tmp = NULL
          THEN [f EXCEPT !.null = TRUE, !.nodes = <<>>,
                         !.errors = Append(f.errors, "not-found")]
          ELSE [f EXCEPT !.nodes = <<>>, !.text = tmp] :
        f \in XbNodeQueryFirst(s, node, xpath)}

\* xb_node_query_export exporting the anchor instead of the match
XbNodeQueryExportSelf(s, node, xpath) ==
    {IF f.null THEN f
     ELSE [f EXCEPT !.xml = XbNodeExport(s, node)] :
        f \in XbNodeQueryFirst(s, node, xpath)}

XbNodeQueryExport(s, node, xpath) ==
    {IF f.null THEN f
     ELSE [f EXCEPT !.xml = XbNodeExport(s, f.nodes[1])] :
        f \in XbNodeQueryFirst(s, node, xpath)}

\* xb_node_query_text_as_uint with the no-text path returning 0
XbNodeQueryTextAsUintZero(s, node, xpath) ==
    {IF f.null THEN [f EXCEPT !.uint = G_MAXUINT64]
     ELSE LET tmp == XbNodeGetText(s, f.nodes[1]) IN
          IF tmp = NULL
          THEN [f EXCEPT !.null = TRUE, !.nodes = <<>>, !.uint = U64Zero,
                         !.errors = Append(f.errors, "not-found")]
          ELSE IF GStrHasPrefix(tmp, <<"0", "x">>)
          THEN [f EXCEPT !.uint = GAsciiStrtoull(SubSeq(tmp, 3, Len(tmp)), 16)]
          ELSE [f EXCEPT !.uint = GAsciiStrtoull(tmp, 10)] :
        f \in XbNodeQueryFirst(s, node, xpath)}

XbNodeQueryTextAsUint(s, node, xpath) ==
    {IF f.null THEN [f EXCEPT !.uint = G_MAXUINT64]
     ELSE LET tmp == XbNodeGetText(s, f.nodes[1]) IN
          IF tmp = NULL
          THEN [f EXCEPT !.null = TRUE, !.nodes = <<>>, !.uint = G_MAXUINT64,
                         !.errors = Append(f.errors, "not-found")]
          ELSE IF GStrHasPrefix(tmp, <<"0", "x">>)
          THEN [f EXCEPT !.uint = GAsciiStrtoull(SubSeq(tmp, 3, Len(tmp)), 16)]
          ELSE [f EXCEPT !.uint = GAsciiStrtoull(tmp, 10)] :
        f \in XbNodeQueryFirst(s, node, xpath)}

(***************************************************************************)
(* Values of the variables a specification leaves alone.                   *)
(***************************************************************************)
IdleLast == [NoResult EXCEPT !.null = FALSE] @@
            [op |-> "idle", node |-> 0, xpath |-> NULL, limit |-> 0]

IdleQueryVars == last = IdleLast

(***************************************************************************)
(* Node-level queries: one action per operation of xb-node.c, called on    *)
(* any node of the silo with any expression of XPaths.  A behaviour makes  *)
(* one call: a call reads only the silo, which never changes, so a later   *)
(* call behaves as a first one.                                            *)
(***************************************************************************)
XPaths == {<<"a">>, <<"b">>, <<"a", "/", "b">>, <<"[">>}

Limits == 0..MaxLimit

Call(op, node, xpath, limit, r) ==
    r @@ [op |-> op, node |-> node, xpath |-> xpath, limit |-> limit]

Query(node, xpath, limit) ==
    /\ last.op = "idle"
    /\ \E r \in XbNodeQuery(silo, node, xpath, limit) :
          last' = Call("query", node, xpath, limit, r)
    /\ UNCHANGED <<silo, siloRefs, handle, views, bufRefs, owned, lastSet, got,
                   self, n, array, pc, tool>>

QueryFirst(node, xpath) ==
    /\ last.op = "idle"
    /\ \E r \in XbNodeQueryFirst(silo, node, xpath) :
          last' = Call("query-first", node, xpath, 1, r)
    /\ UNCHANGED <<silo, siloRefs, handle, views, bufRefs, owned, lastSet, got,
                   self, n, array, pc, tool>>

QueryText(node, xpath) ==
    /\ last.op = "idle"
    /\ \E r \in XbNodeQueryText(silo, node, xpath) :
          last' = Call("query-text", node, xpath, 1, r)
    /\ UNCHANGED <<silo, siloRefs, handle, views, bufRefs, owned, lastSet, got,
                   self, n, array, pc, tool>>

QueryTextAsUint(node, xpath) ==
    /\ last.op = "idle"
    /\ \E r \in XbNodeQueryTextAsUint(silo, node, xpath) :
          last' = Call("query-text-as-uint", node, xpath, 1, r)
    /\ UNCHANGED <<silo, siloRefs, handle, views, bufRefs, owned, lastSet, got,
                   self, n, array, pc, tool>>

QueryExport(node, xpath) ==
    /\ last.op = "idle"
    /\ \E r \in XbNodeQueryExport(silo, node, xpath) :
          last' = Call("query-export", node, xpath, 1, r)
    /\ UNCHANGED <<silo, siloRefs, handle, views, bufRefs, owned, lastSet, got,
                   self, n, array, pc, tool>>

(***************************************************************************)
(* Node views as objects.  A view is [live, sn, data]: data maps each key  *)
(* to the GBytes stored under it by g_object_set_data_full (0: no entry).  *)
(* The silo and every GBytes carry a reference count.                      *)
(***************************************************************************)
Keys == {"k1", "k2"}

Buffers == {1, 2}

ViewIds == 1..(MaxHeld + MaxNodes)

NoData == [k \in Keys |-> 0]

DeadView == [live |-> FALSE, sn |-> 0, data |-> NoData]

LiveIds(vs) == {id \in ViewIds : vs[id].live}

FreeId(vs) == CHOOSE id \in ViewIds \ LiveIds(vs) : \A j \in ViewIds \ LiveIds(vs) : id <= j

\* how many keys of view v map to buffer b
RECURSIVE CountKeys(_, _, _)
CountKeys(v, b, ks) ==
    IF ks = {} THEN 0
    ELSE LET k == CHOOSE x \in ks : TRUE
         IN  (IF v.data[k] = b THEN 1 ELSE 0) + CountKeys(v, b, ks \ {k})

HeldBy(v, b) == IF v.live THEN CountKeys(v, b, Keys) ELSE 0

\* xb_node_new (silo, sn): a new object with the two pointers stored; the
\* silo's reference count is left as it is.  Yields [views, siloRefs, id].
XbNodeNew(vs, refs, sn) ==
    [views |-> [vs EXCEPT ![FreeId(vs)] = [live |-> TRUE, sn |-> sn, data |-> NoData]],
     siloRefs |-> refs,
     id |-> FreeId(vs)]

\* xb_silo_node_create (silo, sn): the silo's way to make a view of a node
XbSiloNodeCreate(vs, refs, sn) == XbNodeNew(vs, refs, sn)

\* NULL when the primitive found no node, a new view otherwise
ViewOrNull(vs, refs, sn) ==
    IF sn = 0 THEN [views |-> vs, siloRefs |-> refs, id |-> 0]
    ELSE XbSiloNodeCreate(vs, refs, sn)

XbNodeGetRoot(vs, refs, s, id) == ViewOrNull(vs, refs, XbSiloGetSroot(s))

XbNodeGetParent(vs, refs, s, id) ==
    ViewOrNull(vs, refs, XbSiloNodeGetParent(s, vs[id].sn))

XbNodeGetNext(vs, refs, s, id) ==
    ViewOrNull(vs, refs, XbSiloNodeGetNext(s, vs[id].sn))

XbNodeGetChild(vs, refs, s, id) ==
    ViewOrNull(vs, refs, XbSiloNodeGetChild(s, vs[id].sn))

\* the last g_object_unref of a view: GObject drops the data list, calling
\* g_bytes_unref on every entry, and xb_node_finalize chains up; the silo's
\* reference count is left as it is.  Yields [views, siloRefs, bufRefs].
XbNodeFinalize(vs, refs, bufs, id) ==
    [views |-> [vs EXCEPT ![id] = DeadView],
     siloRefs |-> refs,
     bufRefs |-> [b \in Buffers |-> bufs[b] - HeldBy(vs[id], b)]]

\* xb_node_get_data (self, key)
XbNodeGetData(vs, id, key) == vs[id].data[key]

\* xb_node_set_data without the destroy notify of the entry it replaces
XbNodeSetDataLeaks(vs, bufs, id, key, data) ==
    [views |-> [vs EXCEPT ![id].data[key] = data],
     bufRefs |-> [bufs EXCEPT ![data] = @ + 1]]

\* xb_node_set_data (self, key, data): g_bytes_ref (data), then
\* g_object_set_data_full stores it and runs the old entry's destroy notify.
\* Yields [views, bufRefs].
XbNodeSetData(vs, bufs, id, key, data) ==
    LET old == vs[id].data[key]
        taken == [bufs EXCEPT ![data] = @ + 1]
    IN  [views |-> [vs EXCEPT ![id].data[key] = data],
         bufRefs |-> IF old = 0 THEN taken ELSE [taken EXCEPT ![old] = @ - 1]]

IdleNodeVars ==
    /\ siloRefs = 1
    /\ handle = TRUE
    /\ views = [id \in ViewIds |-> DeadView]
    /\ bufRefs = [b \in Buffers |-> 1]
    /\ owned = [b \in Buffers |-> 1]
    /\ lastSet = [id \in ViewIds |-> NoData]
    /\ got = [view |-> 0, key |-> "k1", result |-> 0, wanted |-> 0]
    /\ self = 0
    /\ n = 0
    /\ array = <<>>
    /\ pc = "idle"

(***************************************************************************)
(* The caller's operations on views.  Calls are synchronous and single-    *)
(* threaded: the caller acts only between calls, never inside the loop of  *)
(* xb_node_get_children.  A view is used only while the silo exists.       *)
(***************************************************************************)
CallerTurn == pc \in {"idle", "held"}

InArray == {array[i] : i \in 1..Len(array)}

\* the views the caller holds one by one (not through a returned array)
Held == LiveIds(views) \ InArray

Usable(v) == v \in LiveIds(views) /\ siloRefs > 0

Created(r) ==
    /\ views' = r.views
    /\ siloRefs' = r.siloRefs

\* xb_node_new called with the caller's silo and any of its nodes
NodeNew(sn, max) ==
    /\ CallerTurn /\ handle /\ siloRefs > 0
    /\ Cardinality(Held) < max
    /\ Created(XbNodeNew(views, siloRefs, sn))
    /\ UNCHANGED <<silo, last, handle, bufRefs, owned, lastSet, got,
                   self, n, array, pc, tool>>

GetRoot(v) ==
    /\ CallerTurn /\ Usable(v)
    /\ Cardinality(Held) < MaxHeld
    /\ Created(XbNodeGetRoot(views, siloRefs, silo, v))
    /\ UNCHANGED <<silo, last, handle, bufRefs, owned, lastSet, got,
                   self, n, array, pc, tool>>

GetParent(v) ==
    /\ CallerTurn /\ Usable(v)
    /\ Cardinality(Held) < MaxHeld
    /\ Created(XbNodeGetParent(views, siloRefs, silo, v))
    /\ UNCHANGED <<silo, last, handle, bufRefs, owned, lastSet, got,
                   self, n, array, pc, tool>>

GetNext(v) ==
    /\ CallerTurn /\ Usable(v)
    /\ Cardinality(Held) < MaxHeld
    /\ Created(XbNodeGetNext(views, siloRefs, silo, v))
    /\ UNCHANGED <<silo, last, handle, bufRefs, owned, lastSet, got,
                   self, n, array, pc, tool>>

GetChild(v) ==
    /\ CallerTurn /\ Usable(v)
    /\ Cardinality(Held) < MaxHeld
    /\ Created(XbNodeGetChild(views, siloRefs, silo, v))
    /\ UNCHANGED <<silo, last, handle, bufRefs, owned, lastSet, got,
                   self, n, array, pc, tool>>

\* xb_node_query_first as the caller sees it: the match comes back as a view
\* the caller owns (the results array is dropped inside the call)
QueryFirstView(v, xpath) ==
    /\ CallerTurn /\ Usable(v)
    /\ Cardinality(Held) < MaxHeld
    /\ \E r \in XbNodeQueryFirst(silo, views[v].sn, xpath) :
          Created(ViewOrNull(views, siloRefs, IF r.null THEN 0 ELSE r.nodes[1]))
    /\ UNCHANGED <<silo, last, handle, bufRefs, owned, lastSet, got,
                   self, n, array, pc, tool>>

\* g_object_unref on a view the caller holds
NodeUnref(v) ==
    /\ CallerTurn /\ v \in Held
    /\ LET r == XbNodeFinalize(views, siloRefs, bufRefs, v) IN
          /\ views' = r.views
          /\ siloRefs' = r.siloRefs
          /\ bufRefs' = r.bufRefs
    /\ lastSet' = [lastSet EXCEPT ![v] = NoData]
    /\ UNCHANGED <<silo, last, handle, owned, got, self, n, array, pc, tool>>

\* g_object_unref on the caller's silo handle
SiloUnref ==
    /\ CallerTurn /\ handle
    /\ handle' = FALSE
    /\ siloRefs' = siloRefs - 1
    /\ UNCHANGED <<silo, last, views, bufRefs, owned, lastSet, got,
                   self, n, array, pc, tool>>

(***************************************************************************)
(* xb_node_get_children, statement by statement.                           *)
(***************************************************************************)
\* array = g_ptr_array_new_with_free_func (...); n = xb_node_get_child (self)
ChildrenBegin(v) ==
    /\ pc = "idle" /\ Usable(v)
    /\ LET r == XbNodeGetChild(views, siloRefs, silo, v) IN
          /\ Created(r)
          /\ n' = r.id
    /\ self' = v
    /\ array' = <<>>
    /\ pc' = "loop"
    /\ UNCHANGED <<silo, last, handle, bufRefs, owned, lastSet, got, tool>>

\* the loop of xb_node_get_children as an if: it stops after the first child
ChildrenStepOnce ==
    /\ pc = "loop"
    /\ IF n /= 0
       THEN /\ array' = Append(array, n)
            /\ n' = 0
            /\ pc' = "loop"
            /\ UNCHANGED <<views, siloRefs>>
       ELSE /\ pc' = "done"
            /\ UNCHANGED <<views, siloRefs, array, n>>
    /\ UNCHANGED <<silo, last, handle, bufRefs, owned, lastSet, got, self, tool>>

\* while (n != NULL) { g_ptr_array_add (array, n); n = xb_node_get_next (n); }
ChildrenStep ==
    /\ pc = "loop"
    /\ IF n /= 0
       THEN LET r == XbNodeGetNext(views, siloRefs, silo, n) IN
               /\ Created(r)
               /\ array' = Append(array, n)
               /\ n' = r.id
               /\ pc' = "loop"
       ELSE /\ pc' = "done"
            /\ UNCHANGED <<views, siloRefs, array, n>>
    /\ UNCHANGED <<silo, last, handle, bufRefs, owned, lastSet, got, self, tool>>

\* return array: the caller now holds the array, which owns its views
ChildrenReturn ==
    /\ pc = "done"
    /\ pc' = "held"
    /\ UNCHANGED <<silo, last, siloRefs, handle, views, bufRefs, owned, lastSet,
                   got, self, n, array, tool>>

RECURSIVE FinalizeAll(_, _, _, _)
FinalizeAll(vs, refs, bufs, ids) ==
    IF ids = <<>> THEN [views |-> vs, siloRefs |-> refs, bufRefs |-> bufs]
    ELSE LET r == XbNodeFinalize(vs, refs, bufs, Head(ids))
         IN  FinalizeAll(r.views, r.siloRefs, r.bufRefs, Tail(ids))

\* g_ptr_array_unref on the returned array: its free function unrefs each view
ArrayUnref ==
    /\ pc = "held"
    /\ LET r == FinalizeAll(views, siloRefs, bufRefs, array) IN
          /\ views' = r.views
          /\ siloRefs' = r.siloRefs
          /\ bufRefs' = r.bufRefs
    /\ lastSet' = [id \in ViewIds |-> IF id \in InArray THEN NoData ELSE lastSet[id]]
    /\ array' = <<>>
    /\ self' = 0
    /\ pc' = "idle"
    /\ UNCHANGED <<silo, last, handle, owned, got, n, tool>>

(***************************************************************************)
(* Node data.                                                              *)
(***************************************************************************)
SetData(v, key, data) ==
    /\ CallerTurn /\ v \in LiveIds(views)
    /\ bufRefs[data] > 0
    /\ LET r == XbNodeSetData(views, bufRefs, v, key, data) IN
          /\ views' = r.views
          /\ bufRefs' = r.bufRefs
    /\ lastSet' = [lastSet EXCEPT ![v][key] = data]
    /\ UNCHANGED <<silo, last, siloRefs, handle, owned, got, self, n, array, pc, tool>>

GetData(v, key) ==
    /\ CallerTurn /\ v \in LiveIds(views)
    /\ got' = [view |-> v, key |-> key, result |-> XbNodeGetData(views, v, key),
                wanted |-> lastSet[v][key]]
    /\ UNCHANGED <<silo, last, siloRefs, handle, views, bufRefs, owned, lastSet,
                   self, n, array, pc, tool>>

\* g_bytes_unref by the caller on a reference it owns
BytesUnref(b) ==
    /\ CallerTurn /\ owned[b] > 0
    /\ owned' = [owned EXCEPT ![b] = @ - 1]
    /\ bufRefs' = [bufRefs EXCEPT ![b] = @ - 1]
    /\ UNCHANGED <<silo, last, siloRefs, handle, views, lastSet, got,
                   self, n, array, pc, tool>>

(***************************************************************************)
(* xb-tool.c.  The file system is four files, one of each kind:            *)
(*   good      loads and serialises                                        *)
(*   badmagic  loads only when the magic check is bypassed                 *)
(*   missing   never loads                                                 *)
(*   corrupt   loads, but cannot be serialised                             *)
(* A positional argument is a file (for query, the second one is the       *)
(* expression, which matches when tool.hits).  The options given are a     *)
(* subset of Options; --bogus is an option the table does not have, and     *)
(* --help is the one g_option_context_new enables by default.              *)
(***************************************************************************)
FileKinds == <<"good", "badmagic", "missing", "corrupt">>

Files == 1..Len(FileKinds)

Options == {"--verbose", "--force", "--bogus", "--help"}

CommandWords == {"dump", "export", "query", "compile", "bogus"}

NoCommand == "(null)"

XB_SILO_LOAD_FLAG_NONE == {}

XB_SILO_LOAD_FLAG_NO_MAGIC == {"NO_MAGIC"}

\* the command table after g_ptr_array_sort: name and callback
CmdArray ==
    <<[name |-> "compile", callback |-> "xb_tool_compile"],
      [name |-> "dump", callback |-> "xb_tool_dump"],
      [name |-> "export", callback |-> "xb_tool_export"],
      [name |-> "query", callback |-> "xb_tool_query"]>>

SeqsUpTo(S, k) == UNION {[1..m -> S] : m \in 0..k}

ArgLists == {<<>>} \cup {<<c>> \o v : c \in CommandWords, v \in SeqsUpTo(Files, MaxArgs)}

\* xb_silo_load_from_file (silo, file, flags, error)
XbSiloLoadFromFile(file, flags) ==
    CASE FileKinds[file] = "missing" -> [ok |-> FALSE, error |-> "NOT_FOUND"]
      [] FileKinds[file] = "badmagic" /\ "NO_MAGIC" \notin flags ->
                                        [ok |-> FALSE, error |-> "INVALID_DATA"]
      [] OTHER -> [ok |-> TRUE, error |-> "none"]

\* xb_silo_to_string and xb_silo_export on a loaded silo
XbSiloSerialise(file) ==
    IF FileKinds[file] = "corrupt"
    THEN [ok |-> FALSE, error |-> "INVALID_DATA"]
    ELSE [ok |-> TRUE, error |-> "none"]

IdleTool ==
    [opts |-> {}, args |-> <<>>, hits |-> FALSE,
     pc |-> "off", force |-> FALSE, verbose |-> FALSE,
     parsed |-> FALSE, help |-> FALSE,
     command |-> NoCommand, values |-> <<>>, flags |-> {}, i |-> 0,
     loads |-> <<>>, printed |-> <<>>, error |-> "none", usage |-> FALSE,
     exit |-> -1]

ToolStart(opts, args, hits) ==
    [IdleTool EXCEPT !.opts = opts, !.args = args, !.hits = hits, !.pc = "main"]

ToolFails(t, kind) == [t EXCEPT !.error = kind, !.pc = "failed"]

\* the options that end g_option_context_parse where they stand on the
\* command line: the first of them decides ("none" when there is none)
Stoppers(t) ==
    IF t.opts \cap {"--bogus", "--help"} = {} THEN {"none"}
    ELSE t.opts \cap {"--bogus", "--help"}

\* main up to g_option_context_parse: the long options set their flags; an
\* unknown option is a parse error, printed, and the exit code is
\* EXIT_FAILURE; --help prints the help and the library calls exit (0)
XbToolMainParse(t, stop) ==
    CASE stop = "--bogus" ->
            [t EXCEPT !.printed = Append(@, "Failed to parse arguments"),
                      !.pc = "exit", !.exit = 1]
      [] stop = "--help" ->
            [t EXCEPT !.printed = Append(@, "Usage"), !.help = TRUE,
                      !.pc = "exit", !.exit = 0]
      [] OTHER ->
            [t EXCEPT !.verbose = "--verbose" \in t.opts,
                      !.force = "--force" \in t.opts,
                      !.parsed = TRUE,
                      !.command = IF t.args = <<>> THEN NoCommand ELSE Head(t.args),
                      !.values = IF t.args = <<>> THEN <<>> ELSE Tail(t.args),
                      !.pc = "run"]

\* xb_tool_run: the first item whose name is the command
XbToolRun(t) ==
    LET found == {j \in 1..Len(CmdArray) : CmdArray[j].name = t.command}
    IN  IF found = {}
        THEN ToolFails(t, "FAILED")
        ELSE [t EXCEPT !.pc = CmdArray[CHOOSE j \in found : \A k \in found : j <= k].callback]

\* xb_tool_dump and xb_tool_export up to their loop
XbToolLoaderEnter(t, loop) ==
    IF Len(t.values) < 1
    THEN ToolFails(t, "FAILED")
    ELSE [t EXCEPT !.flags = IF t.force
                              THEN XB_SILO_LOAD_FLAG_NONE \cup XB_SILO_LOAD_FLAG_NO_MAGIC
                              ELSE XB_SILO_LOAD_FLAG_NONE,
                   !.i = 0,
                   !.pc = loop]

\* one turn of for (guint i = 0; values[i] != NULL; i++): the file is made
\* from values[0] on every turn
XbToolLoaderTurn(t, cmd) ==
    IF t.i >= Len(t.values)
    THEN [t EXCEPT !.pc = "succeeded"]
    ELSE LET file == t.values[0 + 1]
             ld == XbSiloLoadFromFile(file, t.flags)
             str == XbSiloSerialise(file)
             loaded == [t EXCEPT !.loads = Append(@, [cmd |-> cmd, file |-> file,
                                                      flags |-> t.flags, turn |-> t.i])]
         IN  IF ~ld.ok THEN ToolFails(loaded, ld.error)
             ELSE IF ~str.ok THEN ToolFails(loaded, str.error)
             ELSE [loaded EXCEPT !.printed = Append(@, file), !.i = @ + 1]

XbToolDump(t) == XbToolLoaderEnter(t, "dump_loop")

XbToolDumpTurn(t) == XbToolLoaderTurn(t, "dump")

XbToolExport(t) == XbToolLoaderEnter(t, "export_loop")

XbToolExportTurn(t) == XbToolLoaderTurn(t, "export")

\* xb_tool_query: the file is loaded with XB_SILO_LOAD_FLAG_NONE
XbToolQuery(t) ==
    IF Len(t.values) /= 2
    THEN ToolFails(t, "FAILED")
    ELSE LET file == t.values[1]
             ld == XbSiloLoadFromFile(file, XB_SILO_LOAD_FLAG_NONE)
             loaded == [t EXCEPT !.loads = Append(@, [cmd |-> "query", file |-> file,
                                                      flags |-> XB_SILO_LOAD_FLAG_NONE,
                                                      turn |-> 0])]
         IN  IF ~ld.ok THEN ToolFails(loaded, ld.error)
             ELSE IF ~t.hits THEN ToolFails(loaded, "NOT_FOUND")
             ELSE [loaded EXCEPT !.printed = Append(@, "RESULT"), !.pc = "succeeded"]

\* xb_tool_compile: values[1..] are imported, values[0] is written
XbToolCompile(t) ==
    IF Len(t.values) < 2
    THEN ToolFails(t, "FAILED")
    ELSE IF \E j \in 2..Len(t.values) : FileKinds[t.values[j]] = "missing"
    THEN ToolFails(t, "NOT_FOUND")
    ELSE [t EXCEPT !.pc = "succeeded"]

\* main after xb_tool_run, with EXIT_SUCCESS whatever ret is
XbToolMainReportAlwaysZero(t) ==
    IF t.pc = "failed"
    THEN [t EXCEPT !.printed = Append(@, t.error),
                   !.usage = (t.error = "FAILED"),
                   !.pc = "exit", !.exit = 0]
    ELSE [t EXCEPT !.pc = "exit", !.exit = 0]

\* main after xb_tool_run
XbToolMainReport(t) ==
    IF t.pc = "failed"
    THEN [t EXCEPT !.printed = Append(@, t.error),
                   !.usage = (t.error = "FAILED"),
                   !.pc = "exit", !.exit = 1]
    ELSE [t EXCEPT !.pc = "exit", !.exit = 0]

ToolStep(from, to) ==
    /\ tool.pc \in from
    /\ tool' = to
    /\ UNCHANGED <<silo, last, siloRefs, handle, views, bufRefs, owned, lastSet,
                   got, self, n, array, pc>>

MainParse == \E stop \in Stoppers(tool) : ToolStep({"main"}, XbToolMainParse(tool, stop))

Run == ToolStep({"run"}, XbToolRun(tool))

Dump == ToolStep({"xb_tool_dump"}, XbToolDump(tool))

DumpTurn == ToolStep({"dump_loop"}, XbToolDumpTurn(tool))

Export == ToolStep({"xb_tool_export"}, XbToolExport(tool))

ExportTurn == ToolStep({"export_loop"}, XbToolExportTurn(tool))

ToolQuery == ToolStep({"xb_tool_query"}, XbToolQuery(tool))

Compile == ToolStep({"xb_tool_compile"}, XbToolCompile(tool))

MainReport == ToolStep({"failed", "succeeded"}, XbToolMainReport(tool))

(***************************************************************************)
(* Specifications.                                                         *)
(***************************************************************************)
\* texts for the first match of xb_node_query_text_as_uint
UintTexts ==
    {<<"n", "o", "p", "e">>,
     <<"0", "x", "z", "z">>,
     <<"0", "x", "2", "a">>,
     <<"4", "2">>,
     <<"0">>,
     <<"1", "2", "a", "b">>,
     <<"-", "1">>,
     <<"1", "8", "4", "4", "6", "7", "4", "4", "0", "7", "3", "7", "0", "9", "5", "5", "1", "6", "1", "5">>,
     <<"1", "8", "4", "4", "6", "7", "4", "4", "0", "7", "3", "7", "0", "9", "5", "5", "1", "6", "1", "6">>,
     <<"0", "x", "f", "f", "f", "f", "f", "f", "f", "f", "f", "f", "f", "f", "f", "f", "f", "f">>,
     <<"0", "x", "1", "0", "0", "0", "0", "0", "0", "0", "0", "0", "0", "0", "0", "0", "0", "0", "0">>}

\* the node-level queries on any silo whose leaves read "hi"
Init ==
    /\ silo \in SilosWith({<<"h", "i">>})
    /\ IdleQueryVars
    /\ IdleNodeVars
    /\ tool = IdleTool

Next ==
    \E node \in NodesOf(silo), xpath \in XPaths :
        \/ \E limit \in Limits : Query(node, xpath, limit)
        \/ QueryFirst(node, xpath)
        \/ QueryText(node, xpath)
        \/ QueryTextAsUint(node, xpath)
        \/ QueryExport(node, xpath)

Spec == Init /\ [][Next]_vars

\* xb_node_query_text_as_uint on any silo whose leaves read a text of UintTexts
InitUint ==
    /\ silo \in SilosWith(UintTexts)
    /\ IdleQueryVars
    /\ IdleNodeVars
    /\ tool = IdleTool

NextUint ==
    \E node \in NodesOf(silo), xpath \in XPaths : QueryTextAsUint(node, xpath)

SpecUint == InitUint /\ [][NextUint]_vars

\* the silos whose elements are all named and carry no text
NamedSilos == {s \in SilosWith({}) : \A i \in NodesOf(s) : s.element[i] /= NULL}

\* the life of the silo and of its views: the caller starts with its handle
InitLife ==
    /\ silo \in NamedSilos
    /\ IdleQueryVars
    /\ IdleNodeVars
    /\ tool = IdleTool

NextLife ==
    \/ \E sn \in NodesOf(silo) : NodeNew(sn, MaxHeld)
    \/ \E v \in ViewIds :
        \/ GetRoot(v)
        \/ GetParent(v)
        \/ GetNext(v)
        \/ GetChild(v)
        \/ \E xpath \in XPaths : QueryFirstView(v, xpath)
        \/ NodeUnref(v)
        \/ ChildrenBegin(v)
    \/ SiloUnref
    \/ ChildrenStep
    \/ ChildrenReturn
    \/ ArrayUnref

SpecLife == InitLife /\ [][NextLife]_vars

\* xb_node_get_children called again and again on a view of any node
InitChildren ==
    /\ silo \in NamedSilos
    /\ IdleQueryVars
    /\ siloRefs = 1
    /\ handle = TRUE
    /\ \E sn \in NodesOf(silo) :
          views = [id \in ViewIds |->
                      IF id = 1 THEN [live |-> TRUE, sn |-> sn, data |-> NoData]
                      ELSE DeadView]
    /\ bufRefs = [b \in Buffers |-> 1]
    /\ owned = [b \in Buffers |-> 1]
    /\ lastSet = [id \in ViewIds |-> NoData]
    /\ got = [view |-> 0, key |-> "k1", result |-> 0, wanted |-> 0]
    /\ self = 0
    /\ n = 0
    /\ array = <<>>
    /\ pc = "idle"
    /\ tool = IdleTool

NextChildren ==
    \/ \E v \in ViewIds : ChildrenBegin(v)
    \/ ChildrenStep
    \/ ChildrenReturn
    \/ ArrayUnref

\* the loop runs to completion once entered: nothing else runs in its thread
SpecChildren == InitChildren /\ [][NextChildren]_vars /\ WF_vars(ChildrenStep)

\* node data on views that all point at the one node of <a/>
DataSilo ==
    [parent |-> <<0>>, element |-> <<<<"a">>>>, text |-> <<NULL>>]

InitData ==
    /\ silo = DataSilo
    /\ IdleQueryVars
    /\ IdleNodeVars
    /\ tool = IdleTool

NextData ==
    \/ \E sn \in NodesOf(silo) : NodeNew(sn, MaxDataViews)
    \/ \E v \in LiveIds(views) :
        \/ \E key \in Keys :
            \/ \E data \in Buffers : SetData(v, key, data)
            \/ GetData(v, key)
        \/ NodeUnref(v)
    \/ \E b \in Buffers : BytesUnref(b)

SpecData == InitData /\ [][NextData]_vars

\* one run of xb-tool on any command line
InitTool ==
    /\ silo = DataSilo
    /\ IdleQueryVars
    /\ IdleNodeVars
    /\ \E opts \in SUBSET Options, args \in ArgLists, hits \in BOOLEAN :
          tool = ToolStart(opts, args, hits)

NextTool ==
    \/ MainParse
    \/ Run
    \/ Dump
    \/ DumpTurn
    \/ Export
    \/ ExportTurn
    \/ ToolQuery
    \/ Compile
    \/ MainReport

SpecTool == InitTool /\ [][NextTool]_vars

(***************************************************************************)
(* Claims.                                                                 *)
(***************************************************************************)
\* what the silo-level evaluator answers to the call the last operation made
Evaluated ==
    LET c == last.calls[1]
    IN  XbSiloQueryWithRoot(silo, c.anchor, c.xpath, c.limit)

\* the text of the first match of the last operation, NULL when there is no
\* match or the match has no text
FirstText ==
    IF Evaluated.null THEN NULL ELSE XbSiloNodeGetText(silo, Evaluated.nodes[1])

ErrorSet == {last.errors[i] : i \in 1..Len(last.errors)}

IsDigits(str, base) ==
    /\ str /= <<>>
    /\ \A i \in 1..Len(str) : CharVal(str[i]) >= 0 /\ CharVal(str[i]) < base

\* a decimal numeral, or 0x and a hexadecimal numeral
IsNumeral(str) ==
    IF GStrHasPrefix(str, <<"0", "x">>)
    THEN IsDigits(SubSeq(str, 3, Len(str)), 16)
    ELSE IsDigits(str, 10)

\* C1, as stated: xb_node_query_text_as_uint returns MAX_UINT64 if and only if
\* it reports a not-found error.
C1_MaxIffNotFound ==
    last.op = "query-text-as-uint" =>
        ((last.uint = G_MAXUINT64) <=> ("not-found" \in ErrorSet))

\* C1, amended: xb_node_query_text_as_uint reports an error exactly when there
\* is no first match or the first match has no text, and whenever it reports
\* an error it returns MAX_UINT64 (so any other value comes with no error).
C1_ErrorMeansMax ==
    last.op = "query-text-as-uint" =>
        /\ (last.errors /= <<>>) <=> (FirstText = NULL)
        /\ (last.errors /= <<>>) => (last.uint = G_MAXUINT64)

\* C1's case: the first match exists, has no text, and the call reported
\* not-found and returned MAX_UINT64
C1_Witness ==
    /\ last.op = "query-text-as-uint"
    /\ ~Evaluated.null
    /\ FirstText = NULL
    /\ last.errors = <<"not-found">>
    /\ last.uint = G_MAXUINT64

\* C2: when the first match has text that is not a numeral,
\* xb_node_query_text_as_uint returns MAX_UINT64 and sets not-found.
C2_UnparseableIsNotFound ==
    (/\ last.op = "query-text-as-uint"
     /\ FirstText /= NULL
     /\ ~IsNumeral(FirstText))
        => (last.uint = G_MAXUINT64 /\ last.errors = <<"not-found">>)

\* what xb_node_query answers to the last operation's anchor and expression
\* with limit 1
QueryLimitOne ==
    CHOOSE q \in XbNodeQuery(silo, last.node, last.xpath, 1) : TRUE

SameNameBelow(s, node) ==
    {m \in NodesOf(s) :
        /\ s.element[m] = s.element[node]
        /\ s.parent[m] /= 0
        /\ s.element[s.parent[m]] = s.element[node]
        /\ s.parent[s.parent[m]] = s.parent[node]}

\* C5, as stated: xb_node_query_export from n with n's own element name
\* returns the XML of xb_node_export (n, NONE) and does not fail.
C5_ExportsAnchor ==
    (last.op = "query-export" /\ last.xpath = XbNodeGetElement(silo, last.node))
        => /\ ~last.null
           /\ last.errors = <<>>
           /\ last.xml = XbNodeExport(silo, last.node)

\* C5, amended: xb_node_query_export from n with n's own element name never
\* selects n: it exports an element of that name whose parent has that name
\* and lies at n's level, and fails with not-found when there is none.
C5_ExportsSameNameBelow ==
    (last.op = "query-export" /\ last.xpath = XbNodeGetElement(silo, last.node))
        => /\ SameNameBelow(silo, last.node) = {}
                => (last.null /\ last.errors = <<"not-found">>)
           /\ ~last.null
                => /\ last.errors = <<>>
                   /\ last.nodes[1] \in SameNameBelow(silo, last.node)
                   /\ last.nodes[1] /= last.node
                   /\ last.xml = XbNodeExport(silo, last.nodes[1])

\* C5's case: the query with the anchor's own name succeeded
C5_Witness ==
    /\ last.op = "query-export"
    /\ last.xpath = XbNodeGetElement(silo, last.node)
    /\ ~last.null
    /\ last.xml /= XbNodeExport(silo, last.node)

\* C8: xb_node_query_text returns the first match's text with no error; none
\* with exactly one not-found error when there is no match or the match has
\* no text; and none with the evaluator's invalid-query error, unchanged.
C8_QueryText ==
    last.op = "query-text" =>
        /\ FirstText /= NULL
              => (~last.null /\ last.text = FirstText /\ last.errors = <<>>)
        /\ (FirstText = NULL /\ Evaluated.error /= "invalid-query")
              => (last.null /\ last.text = NULL /\ last.errors = <<"not-found">>)
        /\ Evaluated.error = "invalid-query"
              => (last.null /\ last.text = NULL /\ last.errors = <<"invalid-query">>)

\* C8's case: the match exists and has no text, so xb_node_query_text set
\* not-found itself
C8_Witness ==
    /\ last.op = "query-text"
    /\ ~Evaluated.null
    /\ FirstText = NULL
    /\ last.null
    /\ last.errors = <<"not-found">>

IsSuffix(suffix, str) ==
    /\ Len(suffix) <= Len(str)
    /\ SubSeq(str, Len(str) - Len(suffix) + 1, Len(str)) = suffix

\* C9: each of the five operations hands the evaluator the anchor, the
\* expression element(n) "/" x, which contains x whatever element(n) is, and
\* the caller's limit (query) or 1 (the other four).
C9_PrefixedExpression ==
    last.op /= "idle" =>
        /\ Len(last.calls) = 1
        /\ last.calls[1].anchor = last.node
        /\ last.calls[1].limit = (IF last.op = "query" THEN last.limit ELSE 1)
        /\ IsSuffix(SLASH \o last.xpath, last.calls[1].xpath)
        /\ XbNodeGetElement(silo, last.node) /= NULL
              => last.calls[1].xpath
                    = XbNodeGetElement(silo, last.node) \o SLASH \o last.xpath

\* C3: the silo is not released while a node view derived from it is live.
C3_SiloOutlivesViews ==
    LiveIds(views) /= {} => siloRefs > 0

\* the silo nodes of the views in the array of xb_node_get_children
ArrayNodes == [i \in 1..Len(array) |-> views[array[i]].sn]

\* sn, then its next sibling, and so on until there is none
RECURSIVE FollowNext(_, _)
FollowNext(s, sn) ==
    IF sn = 0 THEN <<>>
    ELSE <<sn>> \o FollowNext(s, XbSiloNodeGetNext(s, sn))

ChildrenAreTheChain ==
    pc = "done" =>
        /\ ArrayNodes = FollowNext(silo, XbSiloNodeGetChild(silo, views[self].sn))
        /\ ArrayNodes = ChildrenOf(silo, views[self].sn)

\* C6: xb_node_get_children terminates, and what it returns is child(n)
\* followed along next until none: every direct child of n once, in document
\* order, and nothing when n is a leaf.
C6_ChildrenOfNode ==
    /\ []ChildrenAreTheChain
    /\ (pc = "loop") ~> (pc = "done")

\* C6's case: xb_node_get_children has finished on a node with two children
\* or more
C6_Witness ==
    /\ pc = "done"
    /\ Len(array) >= 2

RECURSIVE SumHeld(_, _)
SumHeld(ids, b) ==
    IF ids = {} THEN 0
    ELSE LET id == CHOOSE x \in ids : TRUE
         IN  HeldBy(views[id], b) + SumHeld(ids \ {id}, b)

\* C7: xb_node_get_data (v, k) is the buffer last set on the view v itself
\* under k, or none; and every buffer's reference count is the caller's
\* references plus one for each key of each live view mapped to it.
C7_NodeData ==
    /\ \A v \in LiveIds(views), k \in Keys :
          XbNodeGetData(views, v, k) = lastSet[v][k]
    /\ got.result = got.wanted
    /\ \A b \in Buffers : bufRefs[b] = owned[b] + SumHeld(ViewIds, b)

\* C7's case: two views of one silo node hold different buffers under one
\* key, and xb_node_get_data on the first returned its own
C7_Witness ==
    \E v, w \in LiveIds(views) :
        /\ v /= w
        /\ views[v].sn = views[w].sn
        /\ views[v].data["k1"] = 1
        /\ views[w].data["k1"] = 2
        /\ views[v].data["k2"] = 2
        /\ got = [view |-> v, key |-> "k1", result |-> 1, wanted |-> 1]

\* C10: every load by dump, export and query bypasses the magic check when
\* the tool was run with --force, and performs it otherwise.
C10_ForceBypassesCheck ==
    \A j \in 1..Len(tool.loads) :
        ("NO_MAGIC" \in tool.loads[j].flags) <=> ("--force" \in tool.opts)

\* the run has ended: main returned or the library called exit
Exited == tool.pc = "exit"

\* a registered command matched the first positional argument
Matched == \E j \in 1..Len(CmdArray) : CmdArray[j].name = tool.command

\* the callback ran and set no error
CallbackSucceeded == Matched /\ tool.error = "none"

\* what a failed run prints last: the parse failure or the error's message
ErrorPrinted ==
    /\ tool.printed /= <<>>
    /\ tool.printed[Len(tool.printed)] =
          (IF tool.parsed THEN tool.error ELSE "Failed to parse arguments")

\* C11, as stated: the run ends with exit code 0 exactly when option parsing
\* succeeded, a registered command matched and its callback succeeded; in
\* every other case it ends with 1 after printing the error, with the usage
\* help when the failure is an invalid-arguments failure.
C11_ZeroIffCommandSucceeded ==
    Exited =>
        /\ tool.exit \in {0, 1}
        /\ (tool.exit = 0) <=> (tool.parsed /\ CallbackSucceeded)
        /\ (tool.exit = 1) => ErrorPrinted
        /\ (tool.exit = 1 /\ tool.error = "FAILED") => tool.usage

\* C11, amended: the run ends with exit code 0 exactly when --help was met
\* during option parsing (the help is printed and no command runs) or option
\* parsing succeeded, a registered command matched and its callback
\* succeeded; in every other case it ends with 1 after printing the error,
\* with the usage help when the failure is an invalid-arguments failure.
C11_ZeroIffHelpOrCommandSucceeded ==
    Exited =>
        /\ tool.exit \in {0, 1}
        /\ (tool.exit = 0) <=> (tool.help \/ (tool.parsed /\ CallbackSucceeded))
        /\ tool.help => (~tool.parsed /\ tool.command = NoCommand /\ tool.loads = <<>>)
        /\ (tool.exit = 1) => ErrorPrinted
        /\ (tool.exit = 1 /\ tool.error = "FAILED") => tool.usage

\* C11's case: a registered command was given the wrong number of arguments
\* and the run ended with 1, the error and the usage help
C11_Witness ==
    /\ Exited
    /\ tool.command = "query"
    /\ Len(tool.values) = 3
    /\ tool.exit = 1
    /\ tool.usage
    /\ tool.printed = <<"FAILED">>

\* C12: turn i of the loop of dump and of export loads the i-th file
\* argument, so the files are taken once each, in argument order.
C12_TurnLoadsItsArgument ==
    \A j \in 1..Len(tool.loads) :
        tool.loads[j].cmd \in {"dump", "export"} =>
            tool.loads[j].file = tool.values[tool.loads[j].turn + 1]

=============================================================================
